---- MODULE Spec2Model ----
(***************************************************************************)
(* Model of the AudioDetectorPro analysis job: AnalysisWorker.run driving  *)
(* AudioLoader (format negotiation, ffmpeg transcode with progress         *)
(* parsing, temp-file cleanup) and VADAnalyzer.analyze, with stop()        *)
(* interleaving from the caller's thread (Spec); the frame loop of          *)
(* VADAnalyzer.analyze and the AnalysisResult percentages (VadSpec);       *)
(* repeated AudioLoader._ensure_wav_format (NormSpec); the job start of    *)
(* MainWindow.analyze_file (WinSpec); single calls of                      *)
(* AudioLoader.cleanup_temp_file (CleanSpec) and AudioLoader.get_duration  *)
(* (DurSpec); two conversions sharing the temp directory (PairSpec); and   *)
(* FFmpegInstallDialog with FFmpegDownloadThread.run and                   *)
(* FFmpegManager.download_and_install (InstSpec).  WinFairSpec and         *)
(* InstFairSpec add the scheduling of the Qt event loop and of the thread. *)
(***************************************************************************)
EXTENDS Integers, Naturals, Sequences, FiniteSets, TLC

\* ------------------------------------------------------------------ bounds
\* number of diagnostic lines the transcoder process prints in one job
MaxLines == 2

\* ------------------------------------------------------------- data model
\* A path is the sequence of its '.'-separated pieces; None is Python's None.
None == <<>>

InputPaths ==
    { <<"/in/a", "wav">>, <<"/in/b", "WAV">>, <<"/in/c", "mp3">>, <<"/in/d">> }

\* the name tempfile.mktemp(suffix='.wav') hands out to this job
TempPath == <<"/tmp/tmp0", "wav">>

AllPaths == InputPaths \cup {TempPath}

\* str.lower() on the pieces that occur
Lower(s) == IF s = "WAV" THEN "wav" ELSE s

\* AudioLoader._get_extension: file_path.lower().split('.')[-1]
GetExtension(p) == Lower(p[Len(p)])

\* AudioLoader.needs_conversion
NeedsConversion(p) == GetExtension(p) # "wav"

\* VADAnalyzer.SUPPORTED_SAMPLE_RATES, also the literal list in
\* AudioLoader._ensure_wav_format
SUPPORTED_SAMPLE_RATES == {8000, 16000, 32000, 48000}

\* file contents
NoFile == [kind |-> "none"]
PartialFile == [kind |-> "partial"]
MediaFile == [kind |-> "media"]
WavFile(c, w, r, ok) ==
    [kind |-> "wav", channels |-> c, sample_width |-> w, frame_rate |-> r,
     wave_ok |-> ok]

\* WAV inputs: header fields, and whether Python's wave module accepts the
\* container (pydub also reads containers that wave.open rejects)
InputWavs ==
    { WavFile(c, w, r, ok) : c \in {1, 2}, w \in {1, 2},
                             r \in {16000, 44100}, ok \in BOOLEAN }

InputContents == InputWavs \cup {MediaFile}

\* what ffmpeg -ac 1 -ar 16000 -acodec pcm_s16le writes on success
TranscodedFile == WavFile(1, 2, 16000, TRUE)

\* what the prober can print (decoded, the trailing newline left out), and
\* "undecodable" for bytes that are not UTF-8
ProbeOutputs ==
    { "4.000000", "0.000000", " 4.0 ", "N/A", "", "4.000000 4.000000",
      "duration=4.000000", "4,0", "0x4", "undecodable" }

\* float(output.decode().strip()) on the outputs above, in seconds
ParseFloat(out) ==
    CASE out \in {"4.000000", " 4.0 "} -> [ok |-> TRUE, value |-> 4]
      [] out = "0.000000" -> [ok |-> TRUE, value |-> 0]
      [] OTHER -> [ok |-> FALSE, value |-> 0]

\* the prober as get_duration meets it: whether find_ffprobe finds one, how
\* check_output ends ("ok", "exit_error" for CalledProcessError, "os_error"
\* when it cannot be executed), and what it printed
Probes ==
    [found : BOOLEAN, run : {"ok", "exit_error", "os_error"},
     output : ProbeOutputs]

\* get_duration without the try/except of lines 81-93
get_duration_NoTry(pr) ==
    IF ~pr.found
       THEN [value |-> 0, raised |-> FALSE]
       ELSE IF pr.run # "ok" \/ ~ParseFloat(pr.output).ok
               THEN [value |-> 0, raised |-> TRUE]
               ELSE [value |-> ParseFloat(pr.output).value, raised |-> FALSE]

\* AudioLoader.get_duration: the value returned, and whether an exception
\* leaves the method
get_duration(pr) ==
    IF ~pr.found
       THEN [value |-> 0, raised |-> FALSE]
       ELSE IF pr.run # "ok" \/ ~ParseFloat(pr.output).ok
               THEN [value |-> 0, raised |-> FALSE]
               ELSE [value |-> ParseFloat(pr.output).value, raised |-> FALSE]

\* durations get_duration can return (0 = unavailable), in seconds
Durations == { get_duration(pr).value : pr \in Probes }

\* elapsed-time markers <<HH, MM, SS>> a diagnostic line can carry;
\* NoMarker is a line without "time="
NoMarker == <<>>
Markers == { <<0, 0, 0>>, <<0, 0, 1>>, <<0, 0, 2>>, <<0, 1, 0>> }

Min(a, b) == IF a < b THEN a ELSE b

\* _convert_to_wav: current_seconds = h*3600 + m*60 + s
CurrentSeconds(mk) == mk[1] * 3600 + mk[2] * 60 + mk[3]

\* line 143 without min(100, ...)
Percent_NoCap(mk, total) == (CurrentSeconds(mk) * 100) \div total

\* _convert_to_wav: percent = min(100, current_seconds / total_duration * 100)
\* (the durations and markers above make the quotient exact)
Percent(mk, total) == Min(100, (CurrentSeconds(mk) * 100) \div total)

VARIABLES
    file_path,        \* AnalysisWorker.file_path
    files,            \* filesystem: path -> contents
    ffmpeg_found,     \* FFmpegManager.find_ffmpeg() is not None
    is_running,       \* AnalysisWorker._is_running
    wav_path,         \* local wav_path of run()
    pc,               \* position of run()
    events,           \* signals emitted so far, in order
    total_duration,   \* local total_duration of _convert_to_wav
    lines,            \* diagnostic lines read from the process so far
    pending,          \* percent handed to on_progress, not yet emitted
    exc,              \* exception in flight / caught by run()
    result,           \* AnalysisResult returned by analyze
    cleanup_calls,    \* calls of cleanup_temp_file made by run()
    unlink_failed,    \* os.unlink raised inside cleanup_temp_file
    escaped,          \* an exception left run()
    stop_point,       \* where run() stood, and whether the temp file was on
                      \* disk, when stop() was called
    process           \* the ffmpeg child: not spawned, running, or exited
                      \* with process.returncode

\* state of one VADAnalyzer and of one call of its analyze()
VARIABLES
    a_pc,             \* position: "new", "ready", "loop", "done", "raised"
    a_args,           \* arguments given to VADAnalyzer.__init__
    sensitivity,      \* VADAnalyzer.sensitivity
    frame_duration,   \* VADAnalyzer.frame_duration
    a_file,           \* the file at the path given to analyze()
    a_i,              \* loop variable i
    a_pos,            \* sample frames read from the stream so far
    a_frames,         \* frames handed to the classifier, with its answers
    speech_frames,    \* local speech_frames
    speech_segments,  \* local speech_segments
    is_speech_active, \* local is_speech_active
    segment_start,    \* local segment_start
    a_result,         \* value returned by analyze()
    a_exc             \* exception raised by analyze()

\* state of repeated calls of AudioLoader._ensure_wav_format
VARIABLES
    n_pc,             \* "ready", or "raised" once from_wav has raised
    n_files,          \* filesystem: path -> contents
    n_path,           \* the path the next call is given
    n_out             \* the paths returned so far, in order

\* state of the MainWindow
VARIABLES
    w_pc,             \* "idle" in the event loop, "aborted" once the process
                      \* was ended by an exception leaving a slot
    sens_index,       \* sensitivity_combo.currentIndex()
    frame_index,      \* frame_duration_combo.currentIndex()
    drop_enabled,     \* drop_zone.isEnabled()
    w_file,           \* drop_zone.current_file
    w_installed,      \* ffmpeg_manager.is_installed()
    worker,           \* MainWindow.worker
    w_config,         \* locals sensitivity, frame_duration of analyze_file
    w_exc             \* exception that left analyze_file

\* state of one call of AudioLoader.cleanup_temp_file
VARIABLES
    c_pc,             \* "ready", "returned" or "raised"
    c_files,          \* filesystem: path -> contents
    c_args,           \* the arguments file_path and original_path
    c_unlink_ok,      \* whether os.unlink succeeds in this environment
    c_before          \* the filesystem when the call was made

\* state of one call of AudioLoader.get_duration
VARIABLES
    d_pc,             \* "ready", "returned" or "raised"
    d_probe,          \* the prober the call meets
    d_ret             \* the value returned

\* state of two conversions running side by side on one temp directory
VARIABLES
    t_pc,             \* per conversion: "start", "named", "written", "done"
    t_path,           \* per conversion: its local temp_path
    t_files           \* temp directory: name -> the conversion whose output
                      \* the file holds, 0 when there is no such file

\* state of one FFmpegInstallDialog and its FFmpegDownloadThread
VARIABLES
    g_pc,             \* the dialog: "open", "accepted" or "rejected"
    g_buttons,        \* auto_btn and manual_btn are enabled
    i_pc,             \* the thread: "none" before start_download; position
                      \* of run(): "ready", "returned", "finished" (signal
                      \* queued), "handled" (on_finished has run),
                      \* or "raised" once an exception has left run()
    i_env,            \* the platform, the archives and the step that fails
    i_ret,            \* local success of run()
    i_bin,            \* binaries in FFmpegManager.bin_dir
    i_signals         \* values emitted on FFmpegDownloadThread.finished

job_vars ==
    << file_path, files, ffmpeg_found, is_running, wav_path, pc, events,
       total_duration, lines, pending, exc, result, cleanup_calls,
       unlink_failed, escaped, stop_point, process >>

vad_vars ==
    << a_pc, a_args, sensitivity, frame_duration, a_file, a_i, a_pos,
       a_frames, speech_frames, speech_segments, is_speech_active,
       segment_start, a_result, a_exc >>

norm_vars == << n_pc, n_files, n_path, n_out >>

win_vars ==
    << w_pc, sens_index, frame_index, drop_enabled, w_file, w_installed,
       worker, w_config, w_exc >>

clean_vars == << c_pc, c_files, c_args, c_unlink_ok, c_before >>

dur_vars == << d_pc, d_probe, d_ret >>

pair_vars == << t_pc, t_path, t_files >>

inst_vars == << g_pc, g_buttons, i_pc, i_env, i_ret, i_bin, i_signals >>

vars ==
    << job_vars, vad_vars, norm_vars, win_vars, clean_vars, dur_vars,
       pair_vars, inst_vars >>

\* what a step of the job leaves alone, and what a step of analyze() does
aux_vars == << clean_vars, dur_vars, pair_vars, inst_vars >>
non_job_vars == << vad_vars, norm_vars, win_vars, aux_vars >>
non_vad_vars == << job_vars, norm_vars, win_vars, aux_vars >>
non_norm_vars == << job_vars, vad_vars, win_vars, aux_vars >>
non_win_vars == << job_vars, vad_vars, norm_vars, aux_vars >>
main_vars == << job_vars, vad_vars, norm_vars, win_vars >>
non_clean_vars == << main_vars, dur_vars, pair_vars, inst_vars >>
non_dur_vars == << main_vars, clean_vars, pair_vars, inst_vars >>
non_pair_vars == << main_vars, clean_vars, dur_vars, inst_vars >>
non_inst_vars == << main_vars, clean_vars, dur_vars, pair_vars >>

NotStopped == [pc |-> "", temp |-> FALSE]

\* subprocess.Popen objects
NoProcess == [kind |-> "none"]
RunningProcess == [kind |-> "running"]
ExitedProcess(rc) == [kind |-> "exited", returncode |-> rc]

NoResult == [kind |-> "none"]

Status(s) == [type |-> "status_changed", val |-> s]
Progress(p) == [type |-> "progress_changed", val |-> p]
Finished(r) == [type |-> "finished", val |-> r]
Error(m) == [type |-> "error", val |-> m]

\* no VADAnalyzer under observation
VadIdle ==
    /\ a_pc = "idle"
    /\ a_args = <<>>
    /\ sensitivity = 0
    /\ frame_duration = 0
    /\ a_file = NoFile
    /\ a_i = 0
    /\ a_pos = 0
    /\ a_frames = <<>>
    /\ speech_frames = 0
    /\ speech_segments = <<>>
    /\ is_speech_active = FALSE
    /\ segment_start = 0
    /\ a_result = NoResult
    /\ a_exc = ""

\* names tempfile.mktemp(suffix='.wav') hands out, in order
TempNames ==
    << TempPath, <<"/tmp/tmp1", "wav">>, <<"/tmp/tmp2", "wav">>,
       <<"/tmp/tmp3", "wav">> >>

\* the WAV file given to the first call
NormInput == <<"/in/a", "wav">>

NormPaths == {NormInput} \cup { TempNames[k] : k \in 1..Len(TempNames) }

\* no normalization under observation
NormIdle ==
    /\ n_pc = "idle"
    /\ n_files = [p \in NormPaths |-> NoFile]
    /\ n_path = None
    /\ n_out = <<>>

NoWorker == [kind |-> "none"]
NoConfig == [kind |-> "none"]

\* no window under observation
WinIdle ==
    /\ w_pc = "none"
    /\ sens_index = 0
    /\ frame_index = 0
    /\ drop_enabled = FALSE
    /\ w_file = None
    /\ w_installed = FALSE
    /\ worker = NoWorker
    /\ w_config = NoConfig
    /\ w_exc = ""

\* paths given to cleanup_temp_file
CleanPaths == { <<"/in/a", "wav">>, <<"/in/c", "mp3">>, TempPath }

\* no call of cleanup_temp_file under observation
CleanIdle ==
    /\ c_pc = "idle"
    /\ c_files = [p \in CleanPaths |-> NoFile]
    /\ c_args = <<None, None>>
    /\ c_unlink_ok = FALSE
    /\ c_before = [p \in CleanPaths |-> NoFile]

\* no call of get_duration under observation
DurIdle ==
    /\ d_pc = "idle"
    /\ d_probe = [found |-> FALSE, run |-> "ok", output |-> ""]
    /\ d_ret = 0

\* the conversions observed side by side
Conversions == {1, 2}

\* the names of the temp directory
PairNames == { TempNames[k] : k \in 1..Len(TempNames) }

\* no pair of conversions under observation
PairIdle ==
    /\ t_pc = [j \in Conversions |-> "idle"]
    /\ t_path = [j \in Conversions |-> None]
    /\ t_files = [n \in PairNames |-> 0]

\* no download thread under observation
InstIdle ==
    /\ g_pc = "idle"
    /\ g_buttons = FALSE
    /\ i_pc = "idle"
    /\ i_env = [platform |-> "", fail_at |-> 0, has_ffmpeg |-> FALSE,
                has_ffprobe |-> FALSE]
    /\ i_ret = FALSE
    /\ i_bin = {}
    /\ i_signals = <<>>

\* nothing under observation besides the job, the analyzer, the
\* normalization and the window
AuxIdle == CleanIdle /\ DurIdle /\ PairIdle /\ InstIdle

Init ==
    /\ VadIdle
    /\ NormIdle
    /\ WinIdle
    /\ AuxIdle
    /\ file_path \in InputPaths
    /\ \E c \in InputContents :
          files = [p \in AllPaths |->
                      IF p = file_path THEN c ELSE NoFile]
    /\ ffmpeg_found \in BOOLEAN
    /\ is_running = TRUE
    /\ wav_path = None
    /\ pc = "start"
    /\ events = <<>>
    /\ total_duration = 0
    /\ lines = 0
    /\ pending = 0
    /\ exc = ""
    /\ result = NoResult
    /\ cleanup_calls = 0
    /\ unlink_failed = FALSE
    /\ escaped = FALSE
    /\ stop_point = NotStopped
    /\ process = NoProcess

\* ------------------------------------------------------ AnalysisWorker.run
\* RunStart without the status emit of line 37
RunStart_NoStatus ==
    /\ pc = "start"
    /\ events' = events
    /\ pc' = IF NeedsConversion(file_path) THEN "convert" ELSE "ensure"
    /\ UNCHANGED << non_job_vars, process, file_path, stop_point,
                    files, ffmpeg_found, is_running,
                    wav_path, total_duration, lines, pending, exc, result,
                    cleanup_calls, unlink_failed, escaped >>

\* run(), lines 31-46: wav_path = None; needs_conversion; status emit
RunStart ==
    /\ pc = "start"
    /\ IF NeedsConversion(file_path)
          THEN /\ events' = Append(events, Status("Converting"))
               /\ pc' = "convert"
          ELSE /\ events' = events
               /\ pc' = "ensure"
    /\ UNCHANGED << non_job_vars, process, file_path, stop_point,
                    files, ffmpeg_found, is_running,
                    wav_path,
                    total_duration, lines, pending, exc, result,
                    cleanup_calls, unlink_failed, escaped >>

\* ConvertBegin with the temp output opened before the find_ffmpeg test
ConvertBegin_TempFirst ==
    /\ pc = "convert"
    /\ files' = [files EXCEPT ![TempPath] = PartialFile]
    /\ IF ~ffmpeg_found
          THEN /\ exc' = "FFmpeg not found"
               /\ pc' = "except"
               /\ UNCHANGED << total_duration, process >>
          ELSE /\ total_duration' \in Durations
               /\ process' = RunningProcess
               /\ pc' = "readline"
               /\ UNCHANGED exc
    /\ UNCHANGED << non_job_vars, file_path, stop_point,
                    ffmpeg_found, is_running,
                    wav_path, events, lines, pending, result, cleanup_calls,
                    unlink_failed, escaped >>

\* _convert_to_wav up to Popen: find_ffmpeg, get_duration, mktemp, spawn
ConvertBegin ==
    /\ pc = "convert"
    /\ IF ~ffmpeg_found
          THEN /\ exc' = "FFmpeg not found"
               /\ pc' = "except"
               /\ UNCHANGED << total_duration, process >>
          ELSE /\ total_duration' \in Durations
               /\ process' = RunningProcess
               /\ pc' = "readline"
               /\ UNCHANGED exc
    /\ UNCHANGED << non_job_vars, file_path, stop_point,
                    files, ffmpeg_found, is_running,
                    wav_path,
                    events, lines, pending, result, cleanup_calls,
                    unlink_failed, escaped >>

\* one iteration of the read loop with a non-empty line: the process has
\* opened its output file; a matching marker is turned into a percentage and
\* handed to progress_callback, whose first statement tests _is_running
FfmpegLine ==
    /\ pc = "readline"
    /\ lines < MaxLines
    /\ lines' = lines + 1
    /\ files' = [files EXCEPT ![TempPath] = PartialFile]
    /\ \E mk \in Markers \cup {NoMarker} :
          IF mk # NoMarker /\ total_duration > 0 /\ is_running
             THEN /\ pending' = Percent(mk, total_duration)
                  /\ pc' = "on_progress"
             ELSE /\ UNCHANGED pending
                  /\ pc' = "readline"
    /\ UNCHANGED << non_job_vars, process, file_path, stop_point,
                    ffmpeg_found, is_running, wav_path,
                    events,
                    total_duration, exc, result, cleanup_calls,
                    unlink_failed, escaped >>

\* on_progress after its test passed: self.progress_changed.emit(p)
EmitProgress ==
    /\ pc = "on_progress"
    /\ events' = Append(events, Progress(pending))
    /\ pc' = "readline"
    /\ UNCHANGED << non_job_vars, process, file_path, stop_point,
                    files, ffmpeg_found, is_running,
                    wav_path,
                    total_duration, lines, pending, exc, result,
                    cleanup_calls, unlink_failed, escaped >>

\* status codes the child can exit with
ReturnCodes == {0, 1}

\* FfmpegExit without the returncode test of lines 146-147
FfmpegExit_IgnoresStatus ==
    /\ pc = "readline"
    /\ \E rc \in ReturnCodes :
          /\ process' = ExitedProcess(rc)
          /\ files' = [files EXCEPT ![TempPath] =
                          IF rc = 0 THEN TranscodedFile ELSE PartialFile]
          /\ wav_path' = TempPath
          /\ pc' = "check1"
          /\ UNCHANGED exc
    /\ UNCHANGED << non_job_vars, file_path, stop_point,
                    ffmpeg_found, is_running,
                    events,
                    total_duration, lines, pending, result, cleanup_calls,
                    unlink_failed, escaped >>

\* the process exits: readline returns '' and poll() is not None; a non-zero
\* return code raises, otherwise temp_path is returned into wav_path
FfmpegExit ==
    /\ pc = "readline"
    /\ \E rc \in ReturnCodes :
          /\ process' = ExitedProcess(rc)
          /\ IF rc # 0
                THEN /\ exc' = "FFmpeg conversion failed"
                     /\ pc' = "except"
                     /\ UNCHANGED << files, wav_path >>
                ELSE /\ files' = [files EXCEPT ![TempPath] = TranscodedFile]
                     /\ wav_path' = TempPath
                     /\ pc' = "check1"
                     /\ UNCHANGED exc
    /\ UNCHANGED << non_job_vars, file_path, stop_point,
                    ffmpeg_found, is_running,
                    events,
                    total_duration, lines, pending, result, cleanup_calls,
                    unlink_failed, escaped >>

\* line 167-169 resampling every stream to 16000
EnsuredRate_Always16k(f) == 16000

\* lines 155-169 with the flag set unconditionally
EnsureNeedsConversion_Always(f) == TRUE

\* AudioLoader._ensure_wav_format: the header after set_channels(1),
\* set_sample_width(2) and set_frame_rate(16000), each applied only when the
\* corresponding test fires
EnsuredChannels(f) == IF f.channels # 1 THEN 1 ELSE f.channels
EnsuredWidth(f) == IF f.sample_width # 2 THEN 2 ELSE f.sample_width
EnsuredRate(f) ==
    IF f.frame_rate \notin SUPPORTED_SAMPLE_RATES THEN 16000 ELSE f.frame_rate

\* the local flag needs_conversion of _ensure_wav_format
EnsureNeedsConversion(f) ==
    \/ f.channels # 1
    \/ f.sample_width # 2
    \/ f.frame_rate \notin SUPPORTED_SAMPLE_RATES

\* load_as_wav on a 'wav' extension: _ensure_wav_format. from_wav raises on a
\* container it cannot decode; a changed stream is exported to a temp path,
\* an unchanged one returns the input path itself
EnsureWavFormat ==
    /\ pc = "ensure"
    /\ LET f == files[file_path] IN
       IF f.kind # "wav"
          THEN /\ exc' = "could not decode"
               /\ pc' = "except"
               /\ UNCHANGED << files, wav_path >>
          ELSE /\ IF EnsureNeedsConversion(f)
                     THEN /\ files' = [files EXCEPT ![TempPath] =
                                 WavFile(EnsuredChannels(f), EnsuredWidth(f),
                                         EnsuredRate(f), TRUE)]
                          /\ wav_path' = TempPath
                     ELSE /\ wav_path' = file_path
                          /\ UNCHANGED files
               /\ pc' = "check1"
               /\ UNCHANGED exc
    /\ UNCHANGED << non_job_vars, process, file_path, stop_point,
                    ffmpeg_found, is_running,
                    events,
                    total_duration, lines, pending, result, cleanup_calls,
                    unlink_failed, escaped >>

\* run(), line 48: if not self._is_running: return
CheckRunning1 ==
    /\ pc = "check1"
    /\ pc' = IF is_running THEN "status_analyzing" ELSE "finally"
    /\ UNCHANGED << non_job_vars, process, file_path, stop_point,
                    files, ffmpeg_found, is_running,
                    wav_path,
                    events, total_duration, lines, pending, exc, result,
                    cleanup_calls, unlink_failed, escaped >>

\* run(), line 51: self.status_changed.emit("Analyzing audio...")
EmitAnalyzing ==
    /\ pc = "status_analyzing"
    /\ events' = Append(events, Status("Analyzing"))
    /\ pc' = "analyze"
    /\ UNCHANGED << non_job_vars, process, file_path, stop_point,
                    files, ffmpeg_found, is_running,
                    wav_path,
                    total_duration, lines, pending, exc, result,
                    cleanup_calls, unlink_failed, escaped >>

\* os.path.basename on the paths that occur
StripDir(s) ==
    CASE s = "/in/a" -> "a"
      [] s = "/in/b" -> "b"
      [] s = "/in/c" -> "c"
      [] s = "/in/d" -> "d"
      [] s = "/tmp/tmp0" -> "tmp0"
      [] OTHER -> s
Basename(p) == [p EXCEPT ![1] = StripDir(p[1])]

\* analyze's checks without the sample-width test of lines 61-62
AnalyzeError_NoWidthTest(f) ==
    CASE f.kind = "none" -> "File not found"
      [] f.kind # "wav" -> "not a WAVE file"
      [] ~f.wave_ok -> "unknown format"
      [] f.channels # 1 -> "Only mono audio is supported"
      [] f.frame_rate \notin SUPPORTED_SAMPLE_RATES -> "Unsupported sample rate"
      [] OTHER -> ""

\* VADAnalyzer.analyze, lines 46-65: the checks made before any frame is
\* classified; "" when all pass, otherwise the exception raised
AnalyzeError(f) ==
    CASE f.kind = "none" -> "File not found"
      [] f.kind # "wav" -> "not a WAVE file"
      [] ~f.wave_ok -> "unknown format"
      [] f.channels # 1 -> "Only mono audio is supported"
      [] f.sample_width # 2 -> "Only 16-bit audio is supported"
      [] f.frame_rate \notin SUPPORTED_SAMPLE_RATES -> "Unsupported sample rate"
      [] OTHER -> ""

\* VADAnalyzer.analyze, lines 122-132: the identity fields of the result
AnalysisResult(p, f) ==
    [kind |-> "result", file_path |-> p, file_name |-> Basename(p),
     sample_rate |-> f.frame_rate]

\* Analyze without the file_name override of line 55
Analyze_NoOverride ==
    /\ pc = "analyze"
    /\ LET f == files[wav_path] IN
       IF AnalyzeError(f) # ""
          THEN /\ exc' = AnalyzeError(f)
               /\ pc' = "except"
               /\ UNCHANGED result
          ELSE /\ result' = AnalysisResult(wav_path, f)
               /\ pc' = "check2"
               /\ UNCHANGED exc
    /\ UNCHANGED << non_job_vars, process, file_path, stop_point,
                    files, ffmpeg_found, is_running,
                    wav_path, events, total_duration, lines, pending,
                    cleanup_calls, unlink_failed, escaped >>

\* run(), lines 52-55: result = analyze(wav_path); result.file_name =
\* original_file_name; an exception of analyze goes to the handler
Analyze ==
    /\ pc = "analyze"
    /\ LET f == files[wav_path] IN
       IF AnalyzeError(f) # ""
          THEN /\ exc' = AnalyzeError(f)
               /\ pc' = "except"
               /\ UNCHANGED result
          ELSE /\ result' = [AnalysisResult(wav_path, f) EXCEPT
                                !.file_name = Basename(file_path)]
               /\ pc' = "check2"
               /\ UNCHANGED exc
    /\ UNCHANGED << non_job_vars, process, file_path, stop_point,
                    files, ffmpeg_found, is_running,
                    wav_path,
                    events, total_duration, lines, pending, cleanup_calls,
                    unlink_failed, escaped >>

\* run(), line 57: if not self._is_running: return
CheckRunning2 ==
    /\ pc = "check2"
    /\ pc' = IF is_running THEN "emit_finished" ELSE "finally"
    /\ UNCHANGED << non_job_vars, process, file_path, stop_point,
                    files, ffmpeg_found, is_running,
                    wav_path,
                    events, total_duration, lines, pending, exc, result,
                    cleanup_calls, unlink_failed, escaped >>

\* run(), line 59: self.finished.emit(result)
EmitFinished ==
    /\ pc = "emit_finished"
    /\ events' = Append(events, Finished(result))
    /\ pc' = "finally"
    /\ UNCHANGED << non_job_vars, process, file_path, stop_point,
                    files, ffmpeg_found, is_running,
                    wav_path,
                    total_duration, lines, pending, exc, result,
                    cleanup_calls, unlink_failed, escaped >>

\* Except with the exception swallowed instead of reported
Except_Silent ==
    /\ pc = "except"
    /\ events' = events
    /\ pc' = "finally"
    /\ UNCHANGED << non_job_vars, process, file_path, stop_point,
                    files, ffmpeg_found, is_running,
                    wav_path, total_duration, lines, pending, exc, result,
                    cleanup_calls, unlink_failed, escaped >>

\* run(), lines 61-62: except Exception as e: self.error.emit(str(e))
Except ==
    /\ pc = "except"
    /\ events' = Append(events, Error(exc))
    /\ pc' = "finally"
    /\ UNCHANGED << non_job_vars, process, file_path, stop_point,
                    files, ffmpeg_found, is_running,
                    wav_path,
                    total_duration, lines, pending, exc, result,
                    cleanup_calls, unlink_failed, escaped >>

\* cleanup_temp_file without the test file_path != original_path
cleanup_temp_file_NoPathTest(fs, p, original_path, ok) ==
    IF fs[p].kind # "none"
       THEN [files |-> IF ok THEN [fs EXCEPT ![p] = NoFile] ELSE fs,
             unlink_raised |-> ~ok,
             raised |-> FALSE]
       ELSE [files |-> fs, unlink_raised |-> FALSE, raised |-> FALSE]

\* cleanup_temp_file without the try/except around os.unlink
cleanup_temp_file_NoTry(fs, p, original_path, ok) ==
    IF p # original_path /\ fs[p].kind # "none"
       THEN [files |-> IF ok THEN [fs EXCEPT ![p] = NoFile] ELSE fs,
             unlink_raised |-> ~ok,
             raised |-> ~ok]
       ELSE [files |-> fs, unlink_raised |-> FALSE, raised |-> FALSE]

\* cleanup_temp_file with the path test turned around (== for !=)
cleanup_temp_file_EqualTest(fs, p, original_path, ok) ==
    IF p = original_path /\ fs[p].kind # "none"
       THEN [files |-> IF ok THEN [fs EXCEPT ![p] = NoFile] ELSE fs,
             unlink_raised |-> ~ok,
             raised |-> FALSE]
       ELSE [files |-> fs, unlink_raised |-> FALSE, raised |-> FALSE]

\* AudioLoader.cleanup_temp_file(file_path, original_path) on filesystem fs;
\* ok says whether os.unlink succeeds.  Gives the filesystem afterwards,
\* whether unlink raised, and whether an exception leaves the method.
cleanup_temp_file(fs, p, original_path, ok) ==
    IF p # original_path /\ fs[p].kind # "none"
       THEN [files |-> IF ok THEN [fs EXCEPT ![p] = NoFile] ELSE fs,
             unlink_raised |-> ~ok,
             raised |-> FALSE]
       ELSE [files |-> fs, unlink_raised |-> FALSE, raised |-> FALSE]

\* run(), lines 64-68: finally: if wav_path: cleanup_temp_file(...)
Finally ==
    /\ pc = "finally"
    /\ IF wav_path # None
          THEN \E ok \in BOOLEAN :
                  LET c == cleanup_temp_file(files, wav_path, file_path, ok) IN
                  /\ files' = c.files
                  /\ unlink_failed' = c.unlink_raised
                  /\ escaped' = c.raised
                  /\ cleanup_calls' = cleanup_calls + 1
          ELSE UNCHANGED << files, unlink_failed, escaped, cleanup_calls >>
    /\ pc' = "done"
    /\ UNCHANGED << non_job_vars, process, file_path, stop_point,
                    ffmpeg_found, is_running, wav_path,
                    events,
                    total_duration, lines, pending, exc, result >>

\* AnalysisWorker.stop(), called from the caller's thread while run() is
\* anywhere between its first and its last statement
Stop ==
    /\ pc # "done"
    /\ is_running
    /\ is_running' = FALSE
    /\ stop_point' = [pc |-> pc, temp |-> files[TempPath] # NoFile]
    /\ UNCHANGED << non_job_vars, process, file_path, files, ffmpeg_found,
                    wav_path,
                    pc, events,
                    total_duration, lines, pending, exc, result,
                    cleanup_calls, unlink_failed, escaped >>

Next ==
    \/ RunStart
    \/ ConvertBegin
    \/ FfmpegLine
    \/ EmitProgress
    \/ FfmpegExit
    \/ EnsureWavFormat
    \/ CheckRunning1
    \/ EmitAnalyzing
    \/ Analyze
    \/ CheckRunning2
    \/ EmitFinished
    \/ Except
    \/ Finally
    \/ Stop

Spec == Init /\ [][Next]_vars

\* ------------------------------------------------------------ VADAnalyzer
\* bound: length of the stream given to analyze(), in frames
MaxVadFrames == 3

\* Seconds are held as whole numbers of ticks of 1/96000 s: every supported
\* sample period and every millisecond is a whole number of ticks, so the
\* quotients of the code are exact.
TicksPerSecond == 96000

Max(a, b) == IF a > b THEN a ELSE b

\* VADAnalyzer.SUPPORTED_FRAME_DURATIONS
SUPPORTED_FRAME_DURATIONS == {10, 20, 30}

\* __init__, line 29, without the lower clamp
ClampSensitivity_NoFloor(s) == Min(3, s)

\* __init__, line 29: max(0, min(3, sensitivity))
ClampSensitivity(s) == Max(0, Min(3, s))

\* __init__, line 30
ChooseFrameDuration(d) == IF d \in SUPPORTED_FRAME_DURATIONS THEN d ELSE 30

\* analyze, line 71: int(sample_rate * frame_duration / 1000)
FrameSize(rate, d) == (rate * d) \div 1000

\* line 72 computed as floor + 1
NumFrames_FloorPlusOne(n, fs) == n \div fs + 1

\* analyze, line 72: math.ceil(n_frames / frame_size)
NumFrames(n, fs) == (n + fs - 1) \div fs

\* analyze, line 79: frame_duration / 1000.0, in ticks
FrameDurationSec(d) == d * (TicksPerSecond \div 1000)

\* analyze, line 115: n_frames / sample_rate, in ticks
TotalDuration(n, rate) == (n * TicksPerSecond) \div rate

\* arguments tried on the constructor
SensitivityArgs == {-1, 0, 2, 3, 9}
FrameDurationArgs == {0, 10, 20, 30, 25}

\* headers of the files given to analyze()
VadRates == SUPPORTED_SAMPLE_RATES \cup {44100}

\* stream lengths tried for a frame size fs: whole frames, one sample more
\* or less than whole frames, at most MaxVadFrames frames in all
StreamLengths(fs) ==
    { n \in { k * fs + r : k \in 0..MaxVadFrames, r \in {0, 1, fs - 1} } :
        NumFrames(n, fs) <= MaxVadFrames }

\* files tried on analyze() by an analyzer whose frame duration is d
VadInputs(d) ==
    {NoFile} \cup
    UNION { { WavFile(c, w, r, TRUE) @@ [n_frames |-> n] :
                c \in {1, 2}, w \in {1, 2},
                n \in StreamLengths(FrameSize(r, d)) } : r \in VadRates }

\* the path given to analyze() in this specification
VadPath == TempPath

VadInit ==
    /\ a_pc = "new"
    /\ a_args \in [sensitivity : SensitivityArgs,
                   frame_duration : FrameDurationArgs]
    /\ sensitivity = 0
    /\ frame_duration = 0
    /\ a_file = NoFile
    /\ a_i = 0
    /\ a_pos = 0
    /\ a_frames = <<>>
    /\ speech_frames = 0
    /\ speech_segments = <<>>
    /\ is_speech_active = FALSE
    /\ segment_start = 0
    /\ a_result = NoResult
    /\ a_exc = ""

\* VADAnalyzer.__init__
VadConstruct ==
    /\ a_pc = "new"
    /\ sensitivity' = ClampSensitivity(a_args.sensitivity)
    /\ frame_duration' = ChooseFrameDuration(a_args.frame_duration)
    /\ a_pc' = "ready"
    /\ UNCHANGED << non_vad_vars, a_args, a_file, a_i, a_pos, a_frames,
                    speech_frames, speech_segments, is_speech_active,
                    segment_start, a_result, a_exc >>

\* ---------------------------------------------------- models.AnalysisResult
\* A percentage is the pair <<numerator, denominator>> of an exact quotient;
\* a zero denominator stands for the ZeroDivisionError of a float division.
PctZero == <<0, 1>>
PctHundred == <<100, 1>>
PctOf(x, total) == <<x * 100, total>>

\* AnalysisResult.speech_percentage
speech_percentage(r) ==
    IF r.total_duration <= 0
       THEN PctZero
       ELSE PctOf(r.speech_duration, r.total_duration)

\* 100.0 - p
PctFromHundred(p) == <<100 * p[2] - p[1], p[2]>>

\* silence_percentage computed from silence_duration instead
silence_percentage_FromDuration(r) ==
    IF r.total_duration <= 0
       THEN PctHundred
       ELSE PctOf(r.silence_duration, r.total_duration)

\* AnalysisResult.silence_percentage
silence_percentage(r) == PctFromHundred(speech_percentage(r))

\* no job under observation
JobIdle ==
    /\ file_path = None
    /\ files = [p \in AllPaths |-> NoFile]
    /\ ffmpeg_found = FALSE
    /\ is_running = FALSE
    /\ wav_path = None
    /\ pc = "idle"
    /\ events = <<>>
    /\ total_duration = 0
    /\ lines = 0
    /\ pending = 0
    /\ exc = ""
    /\ result = NoResult
    /\ cleanup_calls = 0
    /\ unlink_failed = FALSE
    /\ escaped = FALSE
    /\ stop_point = NotStopped
    /\ process = NoProcess

\* analyze, lines 46-79: existence and format checks, then the loop locals
VadAnalyzeBegin ==
    /\ a_pc = "ready"
    /\ \E f \in VadInputs(frame_duration) :
          /\ a_file' = f
          /\ IF AnalyzeError(f) # ""
                THEN /\ a_exc' = AnalyzeError(f)
                     /\ a_pc' = "raised"
                ELSE /\ a_exc' = a_exc
                     /\ a_pc' = "loop"
    /\ a_i' = 0
    /\ a_pos' = 0
    /\ a_frames' = <<>>
    /\ speech_frames' = 0
    /\ speech_segments' = <<>>
    /\ is_speech_active' = FALSE
    /\ segment_start' = 0
    /\ UNCHANGED << non_vad_vars, a_args, sensitivity, frame_duration,
                    a_result >>

\* the answers of vad.is_speech on one frame: True, False, or an exception
VadAnswers == {"speech", "silence", "fault"}

\* analyze, lines 82-86: readframes(frame_size) gives what is left of the
\* stream, at most frame_size sample frames; a short frame is padded
ReadFrames(n, pos, fs) == Max(0, Min(fs, n - pos))

\* lines 85-86 left out: the short frame goes to the classifier as read
PaddedLen_NoPad(read, fs) == read

PaddedLen(read, fs) == IF read * 2 < fs * 2 THEN fs ELSE read

\* the except branch of lines 102-107 appending without its test of
\* is_speech_active
VadFrame_FaultAlwaysAppends ==
    /\ a_pc = "loop"
    /\ LET fs == FrameSize(a_file.frame_rate, frame_duration)
           read == ReadFrames(a_file.n_frames, a_pos, fs)
           t == a_i * FrameDurationSec(frame_duration)
       IN
       /\ a_i < NumFrames(a_file.n_frames, fs)
       /\ a_pos' = a_pos + read
       /\ \E ans \in VadAnswers :
             /\ a_frames' = Append(a_frames,
                   [read |-> read, size |-> PaddedLen(read, fs),
                    answer |-> ans])
             /\ CASE ans = "speech" ->
                       /\ speech_frames' = speech_frames + 1
                       /\ is_speech_active' = TRUE
                       /\ segment_start' =
                             IF ~is_speech_active THEN t ELSE segment_start
                       /\ UNCHANGED speech_segments
                  [] ans = "silence" ->
                       /\ is_speech_active' = FALSE
                       /\ speech_segments' =
                             IF is_speech_active
                                THEN Append(speech_segments,
                                            <<segment_start, t>>)
                                ELSE speech_segments
                       /\ UNCHANGED << speech_frames, segment_start >>
                  [] ans = "fault" ->
                       /\ is_speech_active' = FALSE
                       /\ speech_segments' =
                             Append(speech_segments, <<segment_start, t>>)
                       /\ UNCHANGED << speech_frames, segment_start >>
    /\ a_i' = a_i + 1
    /\ UNCHANGED << non_vad_vars, a_pc, a_args, sensitivity, frame_duration,
                    a_file, a_result, a_exc >>

\* the speech branch of lines 91-95 setting segment_start on every frame
VadFrame_RestartEachFrame ==
    /\ a_pc = "loop"
    /\ LET fs == FrameSize(a_file.frame_rate, frame_duration)
           read == ReadFrames(a_file.n_frames, a_pos, fs)
           t == a_i * FrameDurationSec(frame_duration)
       IN
       /\ a_i < NumFrames(a_file.n_frames, fs)
       /\ a_pos' = a_pos + read
       /\ \E ans \in VadAnswers :
             /\ a_frames' = Append(a_frames,
                   [read |-> read, size |-> PaddedLen(read, fs),
                    answer |-> ans])
             /\ CASE ans = "speech" ->
                       /\ speech_frames' = speech_frames + 1
                       /\ is_speech_active' = TRUE
                       /\ segment_start' = t
                       /\ UNCHANGED speech_segments
                  [] ans = "silence" ->
                       /\ is_speech_active' = FALSE
                       /\ speech_segments' =
                             IF is_speech_active
                                THEN Append(speech_segments,
                                            <<segment_start, t>>)
                                ELSE speech_segments
                       /\ UNCHANGED << speech_frames, segment_start >>
                  [] ans = "fault" ->
                       /\ is_speech_active' = FALSE
                       /\ speech_segments' =
                             IF is_speech_active
                                THEN Append(speech_segments,
                                            <<segment_start, t>>)
                                ELSE speech_segments
                       /\ UNCHANGED << speech_frames, segment_start >>
    /\ a_i' = a_i + 1
    /\ UNCHANGED << non_vad_vars, a_pc, a_args, sensitivity, frame_duration,
                    a_file, a_result, a_exc >>

\* the except branch of lines 102-107 replaced by pass
VadFrame_FaultKeepsOpen ==
    /\ a_pc = "loop"
    /\ LET fs == FrameSize(a_file.frame_rate, frame_duration)
           read == ReadFrames(a_file.n_frames, a_pos, fs)
           t == a_i * FrameDurationSec(frame_duration)
       IN
       /\ a_i < NumFrames(a_file.n_frames, fs)
       /\ a_pos' = a_pos + read
       /\ \E ans \in VadAnswers :
             /\ a_frames' = Append(a_frames,
                   [read |-> read, size |-> PaddedLen(read, fs),
                    answer |-> ans])
             /\ CASE ans = "speech" ->
                       /\ speech_frames' = speech_frames + 1
                       /\ is_speech_active' = TRUE
                       /\ segment_start' =
                             IF ~is_speech_active THEN t ELSE segment_start
                       /\ UNCHANGED speech_segments
                  [] ans = "silence" ->
                       /\ is_speech_active' = FALSE
                       /\ speech_segments' =
                             IF is_speech_active
                                THEN Append(speech_segments,
                                            <<segment_start, t>>)
                                ELSE speech_segments
                       /\ UNCHANGED << speech_frames, segment_start >>
                  [] ans = "fault" ->
                       UNCHANGED << is_speech_active, speech_segments,
                                    speech_frames, segment_start >>
    /\ a_i' = a_i + 1
    /\ UNCHANGED << non_vad_vars, a_pc, a_args, sensitivity, frame_duration,
                    a_file, a_result, a_exc >>

\* the except branch of lines 102-107 counting the frame as speech
VadFrame_FaultCountsSpeech ==
    /\ a_pc = "loop"
    /\ LET fs == FrameSize(a_file.frame_rate, frame_duration)
           read == ReadFrames(a_file.n_frames, a_pos, fs)
           t == a_i * FrameDurationSec(frame_duration)
       IN
       /\ a_i < NumFrames(a_file.n_frames, fs)
       /\ a_pos' = a_pos + read
       /\ \E ans \in VadAnswers :
             /\ a_frames' = Append(a_frames,
                   [read |-> read, size |-> PaddedLen(read, fs),
                    answer |-> ans])
             /\ CASE ans = "speech" ->
                       /\ speech_frames' = speech_frames + 1
                       /\ is_speech_active' = TRUE
                       /\ segment_start' =
                             IF ~is_speech_active THEN t ELSE segment_start
                       /\ UNCHANGED speech_segments
                  [] ans = "silence" ->
                       /\ is_speech_active' = FALSE
                       /\ speech_segments' =
                             IF is_speech_active
                                THEN Append(speech_segments,
                                            <<segment_start, t>>)
                                ELSE speech_segments
                       /\ UNCHANGED << speech_frames, segment_start >>
                  [] ans = "fault" ->
                       /\ is_speech_active' = FALSE
                       /\ speech_segments' =
                             IF is_speech_active
                                THEN Append(speech_segments,
                                            <<segment_start, t>>)
                                ELSE speech_segments
                       /\ speech_frames' = speech_frames + 1
                       /\ UNCHANGED segment_start
    /\ a_i' = a_i + 1
    /\ UNCHANGED << non_vad_vars, a_pc, a_args, sensitivity, frame_duration,
                    a_file, a_result, a_exc >>

\* the else branch of lines 96-100 without the append of line 100
VadFrame_SilenceDropsSegment ==
    /\ a_pc = "loop"
    /\ LET fs == FrameSize(a_file.frame_rate, frame_duration)
           read == ReadFrames(a_file.n_frames, a_pos, fs)
           t == a_i * FrameDurationSec(frame_duration)
       IN
       /\ a_i < NumFrames(a_file.n_frames, fs)
       /\ a_pos' = a_pos + read
       /\ \E ans \in VadAnswers :
             /\ a_frames' = Append(a_frames,
                   [read |-> read, size |-> PaddedLen(read, fs),
                    answer |-> ans])
             /\ CASE ans = "speech" ->
                       /\ speech_frames' = speech_frames + 1
                       /\ is_speech_active' = TRUE
                       /\ segment_start' =
                             IF ~is_speech_active THEN t ELSE segment_start
                       /\ UNCHANGED speech_segments
                  [] ans = "silence" ->
                       /\ is_speech_active' = FALSE
                       /\ UNCHANGED << speech_segments, speech_frames,
                                       segment_start >>
                  [] ans = "fault" ->
                       /\ is_speech_active' = FALSE
                       /\ speech_segments' =
                             IF is_speech_active
                                THEN Append(speech_segments,
                                            <<segment_start, t>>)
                                ELSE speech_segments
                       /\ UNCHANGED << speech_frames, segment_start >>
    /\ a_i' = a_i + 1
    /\ UNCHANGED << non_vad_vars, a_pc, a_args, sensitivity, frame_duration,
                    a_file, a_result, a_exc >>

\* analyze, lines 81-107: one iteration of the frame loop
VadFrame ==
    /\ a_pc = "loop"
    /\ LET fs == FrameSize(a_file.frame_rate, frame_duration)
           read == ReadFrames(a_file.n_frames, a_pos, fs)
           t == a_i * FrameDurationSec(frame_duration)
       IN
       /\ a_i < NumFrames(a_file.n_frames, fs)
       /\ a_pos' = a_pos + read
       /\ \E ans \in VadAnswers :
             /\ a_frames' = Append(a_frames,
                   [read |-> read, size |-> PaddedLen(read, fs),
                    answer |-> ans])
             /\ CASE ans = "speech" ->
                       /\ speech_frames' = speech_frames + 1
                       /\ is_speech_active' = TRUE
                       /\ segment_start' =
                             IF ~is_speech_active THEN t ELSE segment_start
                       /\ UNCHANGED speech_segments
                  [] ans = "silence" ->
                       /\ is_speech_active' = FALSE
                       /\ speech_segments' =
                             IF is_speech_active
                                THEN Append(speech_segments,
                                            <<segment_start, t>>)
                                ELSE speech_segments
                       /\ UNCHANGED << speech_frames, segment_start >>
                  [] ans = "fault" ->
                       /\ is_speech_active' = FALSE
                       /\ speech_segments' =
                             IF is_speech_active
                                THEN Append(speech_segments,
                                            <<segment_start, t>>)
                                ELSE speech_segments
                       /\ UNCHANGED << speech_frames, segment_start >>
    /\ a_i' = a_i + 1
    /\ UNCHANGED << non_vad_vars, a_pc, a_args, sensitivity, frame_duration,
                    a_file, a_result, a_exc >>

\* lines 117-120 without the clamp of line 120
SilenceDuration_NoClamp(total, speech) == total - speech

\* analyze, lines 117-120: max(0, total_duration - speech_duration)
SilenceDuration(total, speech) == Max(0, total - speech)

\* VadFinish without lines 109-112
VadFinish_NoClose ==
    /\ a_pc = "loop"
    /\ LET fs == FrameSize(a_file.frame_rate, frame_duration)
           num_frames == NumFrames(a_file.n_frames, fs)
           fds == FrameDurationSec(frame_duration)
           segs == speech_segments
           total == TotalDuration(a_file.n_frames, a_file.frame_rate)
           speech == speech_frames * fds
       IN
       /\ a_i = num_frames
       /\ speech_segments' = segs
       /\ a_result' =
             AnalysisResult(VadPath, a_file) @@
             [total_duration |-> total,
              speech_duration |-> speech,
              silence_duration |-> SilenceDuration(total, speech),
              sensitivity |-> sensitivity,
              frame_duration |-> frame_duration,
              speech_segments |-> segs]
    /\ a_pc' = "done"
    /\ UNCHANGED << non_vad_vars, a_args, sensitivity, frame_duration,
                    a_file, a_i, a_pos, a_frames, speech_frames,
                    is_speech_active, segment_start, a_exc >>

\* line 111 closing the last segment one frame late
VadFinish_CloseOneLate ==
    /\ a_pc = "loop"
    /\ LET fs == FrameSize(a_file.frame_rate, frame_duration)
           num_frames == NumFrames(a_file.n_frames, fs)
           fds == FrameDurationSec(frame_duration)
           segs == IF is_speech_active
                      THEN Append(speech_segments,
                                  <<segment_start, (num_frames + 1) * fds>>)
                      ELSE speech_segments
           total == TotalDuration(a_file.n_frames, a_file.frame_rate)
           speech == speech_frames * fds
       IN
       /\ a_i = num_frames
       /\ speech_segments' = segs
       /\ a_result' =
             AnalysisResult(VadPath, a_file) @@
             [total_duration |-> total,
              speech_duration |-> speech,
              silence_duration |-> SilenceDuration(total, speech),
              sensitivity |-> sensitivity,
              frame_duration |-> frame_duration,
              speech_segments |-> segs]
    /\ a_pc' = "done"
    /\ UNCHANGED << non_vad_vars, a_args, sensitivity, frame_duration,
                    a_file, a_i, a_pos, a_frames, speech_frames,
                    is_speech_active, segment_start, a_exc >>

\* analyze, lines 109-132: close the open segment, compute the durations and
\* build the result
VadFinish ==
    /\ a_pc = "loop"
    /\ LET fs == FrameSize(a_file.frame_rate, frame_duration)
           num_frames == NumFrames(a_file.n_frames, fs)
           fds == FrameDurationSec(frame_duration)
           segs == IF is_speech_active
                      THEN Append(speech_segments,
                                  <<segment_start, num_frames * fds>>)
                      ELSE speech_segments
           total == TotalDuration(a_file.n_frames, a_file.frame_rate)
           speech == speech_frames * fds
       IN
       /\ a_i = num_frames
       /\ speech_segments' = segs
       /\ a_result' =
             AnalysisResult(VadPath, a_file) @@
             [total_duration |-> total,
              speech_duration |-> speech,
              silence_duration |-> SilenceDuration(total, speech),
              sensitivity |-> sensitivity,
              frame_duration |-> frame_duration,
              speech_segments |-> segs]
    /\ a_pc' = "done"
    /\ UNCHANGED << non_vad_vars, a_args, sensitivity, frame_duration,
                    a_file, a_i, a_pos, a_frames, speech_frames,
                    is_speech_active, segment_start, a_exc >>

VadNext ==
    \/ VadConstruct
    \/ VadAnalyzeBegin
    \/ VadFrame
    \/ VadFinish

VadSpecInit == JobIdle /\ NormIdle /\ WinIdle /\ AuxIdle /\ VadInit

VadSpec == VadSpecInit /\ [][VadNext]_vars

\* ------------------------------------------- repeated _ensure_wav_format
\* bound: number of calls made one after the other
MaxPasses == 2

\* WAV headers given to the first call, and a file that is not a WAV
NormInputs ==
    { WavFile(c, w, r, TRUE) :
        c \in {1, 2, 5}, w \in {1, 2, 3},
        r \in {8000, 16000, 22050, 32000, 44100, 48000} }
    \cup {MediaFile}

NormInit ==
    /\ n_pc = "ready"
    /\ \E c \in NormInputs :
          n_files = [p \in NormPaths |-> IF p = NormInput THEN c ELSE NoFile]
    /\ n_path = NormInput
    /\ n_out = <<>>

\* the next name of mktemp: one that names no existing file
NextTemp ==
    TempNames[Cardinality({ k \in 1..Len(TempNames) :
                              n_files[TempNames[k]] # NoFile }) + 1]

\* _ensure_wav_format(n_path): as EnsureWavFormat, on the path returned by
\* the call before
Normalize ==
    /\ n_pc = "ready"
    /\ Len(n_out) < MaxPasses
    /\ LET f == n_files[n_path] IN
       IF f.kind # "wav"
          THEN /\ n_pc' = "raised"
               /\ UNCHANGED << n_files, n_path, n_out >>
          ELSE /\ IF EnsureNeedsConversion(f)
                     THEN /\ n_files' = [n_files EXCEPT ![NextTemp] =
                                 WavFile(EnsuredChannels(f), EnsuredWidth(f),
                                         EnsuredRate(f), TRUE)]
                          /\ n_path' = NextTemp
                          /\ n_out' = Append(n_out, NextTemp)
                     ELSE /\ n_path' = n_path
                          /\ n_out' = Append(n_out, n_path)
                          /\ UNCHANGED n_files
               /\ UNCHANGED n_pc
    /\ UNCHANGED non_norm_vars

NormNext == Normalize

NormSpecInit == JobIdle /\ VadIdle /\ WinIdle /\ AuxIdle /\ NormInit

NormSpec == NormSpecInit /\ [][NormNext]_vars

\* ------------------------------------------------------------- MainWindow
\* AudioLoader.SUPPORTED_FORMATS
SUPPORTED_FORMATS == {"wav", "mp3", "flac", "ogg", "m4a", "aac", "wma"}

\* AudioLoader.is_supported
IsSupported(p) == GetExtension(p) \in SUPPORTED_FORMATS

\* files the user drops or picks
WinPaths ==
    { <<"/in/a", "wav">>, <<"/in/b", "WAV">>, <<"/in/c", "mp3">>,
      <<"/in/e", "txt">> }

\* the numbers int(currentText().split(...)[0]) reads from the combo items
\* "0: Low ...", "1: Normal", "2: High ...", "3: Max ..." and
\* "10 ms: ...", "20 ms: ...", "30 ms: ..."
SensitivityItems == <<0, 1, 2, 3>>
FrameDurationItems == <<10, 20, 30>>

\* parameters of AnalysisWorker.__init__ after self
WorkerInitParams == <<"file_path", "analyzer", "ffmpeg_manager">>

\* AnalysisWorker(*args): Python binds the positional arguments to the
\* parameters and raises TypeError when their numbers differ
NewAnalysisWorker(args) ==
    IF Len(args) # Len(WorkerInitParams)
       THEN [kind |-> "TypeError"]
       ELSE [kind |-> "worker", file_path |-> args[1], analyzer |-> args[2],
             ffmpeg_manager |-> args[3]]

\* MainWindow.__init__ / setup_ui: both combos at index 2, drop zone enabled
WinInit ==
    /\ w_pc = "idle"
    /\ sens_index = 2
    /\ frame_index = 2
    /\ drop_enabled = TRUE
    /\ w_file = None
    /\ w_installed \in BOOLEAN
    /\ worker = NoWorker
    /\ w_config = NoConfig
    /\ w_exc = ""

\* the user picks an item of sensitivity_combo
SelectSensitivity ==
    /\ w_pc = "idle"
    /\ \E k \in 0..(Len(SensitivityItems) - 1) :
          /\ k # sens_index
          /\ sens_index' = k
    /\ UNCHANGED << non_win_vars, w_pc, frame_index, drop_enabled, w_file,
                    w_installed, worker, w_config, w_exc >>

\* the user picks an item of frame_duration_combo
SelectFrameDuration ==
    /\ w_pc = "idle"
    /\ \E k \in 0..(Len(FrameDurationItems) - 1) :
          /\ k # frame_index
          /\ frame_index' = k
    /\ UNCHANGED << non_win_vars, w_pc, sens_index, drop_enabled, w_file,
                    w_installed, worker, w_config, w_exc >>

\* analyze_file without line 286, drop_zone.setEnabled(False)
AnalyzeFile_NoDisable ==
    /\ w_pc = "idle"
    /\ drop_enabled
    /\ \E p \in WinPaths, dialog_result \in {0, 1}, installed \in BOOLEAN,
          after \in {"idle", "aborted"} :
          LET need_dialog == GetExtension(p) # "wav" /\ ~w_installed
              now_installed == IF need_dialog /\ dialog_result # 0
                                  THEN installed ELSE w_installed
              w == NewAnalysisWorker(
                      << p, "ffmpeg_manager",
                         SensitivityItems[sens_index + 1],
                         FrameDurationItems[frame_index + 1] >>)
          IN
          /\ w_installed' = now_installed
          /\ IF \/ ~IsSupported(p)
                \/ (need_dialog /\ dialog_result = 0)
                \/ (need_dialog /\ ~now_installed)
                THEN /\ w_file' = None
                     /\ UNCHANGED << w_pc, drop_enabled, worker, w_config,
                                     w_exc >>
                ELSE /\ w_file' = p
                     /\ drop_enabled' = drop_enabled
                     /\ w_config' =
                           [kind |-> "config",
                            sensitivity |-> SensitivityItems[sens_index + 1],
                            frame_duration |->
                               FrameDurationItems[frame_index + 1]]
                     /\ IF w.kind = "TypeError"
                           THEN /\ w_exc' = "TypeError"
                                /\ w_pc' = after
                                /\ UNCHANGED worker
                           ELSE /\ worker' = w
                                /\ UNCHANGED << w_pc, w_exc >>
    /\ UNCHANGED << non_win_vars, sens_index, frame_index >>

\* on_file_selected(file_path): drop_zone.set_file, then analyze_file, lines
\* 247-298.  The drop zone delivers drops and clicks only while enabled.  An
\* exception leaving the slot either ends the process or is reported and the
\* event loop goes on, depending on the PyQt build and excepthook.
AnalyzeFile ==
    /\ w_pc = "idle"
    /\ drop_enabled
    /\ \E p \in WinPaths, dialog_result \in {0, 1}, installed \in BOOLEAN,
          after \in {"idle", "aborted"} :
          LET need_dialog == GetExtension(p) # "wav" /\ ~w_installed
              now_installed == IF need_dialog /\ dialog_result # 0
                                  THEN installed ELSE w_installed
              w == NewAnalysisWorker(
                      << p, "ffmpeg_manager",
                         SensitivityItems[sens_index + 1],
                         FrameDurationItems[frame_index + 1] >>)
          IN
          /\ w_installed' = now_installed
          /\ IF \/ ~IsSupported(p)
                \/ (need_dialog /\ dialog_result = 0)
                \/ (need_dialog /\ ~now_installed)
                THEN /\ w_file' = None
                     /\ UNCHANGED << w_pc, drop_enabled, worker, w_config,
                                     w_exc >>
                ELSE /\ w_file' = p
                     /\ drop_enabled' = FALSE
                     /\ w_config' =
                           [kind |-> "config",
                            sensitivity |-> SensitivityItems[sens_index + 1],
                            frame_duration |->
                               FrameDurationItems[frame_index + 1]]
                     /\ IF w.kind = "TypeError"
                           THEN /\ w_exc' = "TypeError"
                                /\ w_pc' = after
                                /\ UNCHANGED worker
                           ELSE /\ worker' = w
                                /\ UNCHANGED << w_pc, w_exc >>
    /\ UNCHANGED << non_win_vars, sens_index, frame_index >>

WinNext ==
    \/ SelectSensitivity
    \/ SelectFrameDuration
    \/ AnalyzeFile

WinSpecInit == JobIdle /\ VadIdle /\ NormIdle /\ AuxIdle /\ WinInit

WinSpec == WinSpecInit /\ [][WinNext]_vars

\* The event loop goes on serving the window for as long as it is alive.
\* on_analysis_finished and on_analysis_error are connected at lines
\* 296-297, after the constructor call of line 293 has raised, so no signal
\* is ever delivered to them and they are no step of the window.
WinFairSpec == WinSpec /\ WF_vars(WinNext)

\* ------------------------------------------ AudioLoader.cleanup_temp_file
\* the rest of the model is not under observation
MainIdle == JobIdle /\ VadIdle /\ NormIdle /\ WinIdle

\* contents the files of a call can have
CleanContents == {NoFile, PartialFile, TranscodedFile}

CleanInit ==
    /\ c_pc = "ready"
    /\ c_files \in [CleanPaths -> CleanContents]
    /\ c_args \in CleanPaths \X CleanPaths
    /\ c_unlink_ok \in BOOLEAN
    /\ c_before = [p \in CleanPaths |-> NoFile]

\* one call cleanup_temp_file(c_args[1], c_args[2])
CleanupCall ==
    /\ c_pc = "ready"
    /\ LET c == cleanup_temp_file(c_files, c_args[1], c_args[2],
                                  c_unlink_ok) IN
       /\ c_before' = c_files
       /\ c_files' = c.files
       /\ c_pc' = IF c.raised THEN "raised" ELSE "returned"
    /\ UNCHANGED << non_clean_vars, c_args, c_unlink_ok >>

CleanNext == CleanupCall

CleanSpecInit == MainIdle /\ DurIdle /\ PairIdle /\ InstIdle /\ CleanInit

CleanSpec == CleanSpecInit /\ [][CleanNext]_vars

\* ------------------------------------------------- AudioLoader.get_duration
DurInit ==
    /\ d_pc = "ready"
    /\ d_probe \in Probes
    /\ d_ret = 0

\* one call get_duration(file_path)
GetDurationCall ==
    /\ d_pc = "ready"
    /\ LET r == get_duration(d_probe) IN
       /\ d_ret' = r.value
       /\ d_pc' = IF r.raised THEN "raised" ELSE "returned"
    /\ UNCHANGED << non_dur_vars, d_probe >>

DurNext == GetDurationCall

DurSpecInit == MainIdle /\ CleanIdle /\ PairIdle /\ InstIdle /\ DurInit

DurSpec == DurSpecInit /\ [][DurNext]_vars

\* ------------------------------------------------ two conversions at once
PairInit ==
    /\ t_pc = [j \in Conversions |-> "start"]
    /\ t_path = [j \in Conversions |-> None]
    /\ t_files = [n \in PairNames |-> 0]

\* temp_path = tempfile.mktemp(suffix='.wav') in conversion j: a name that
\* names no file at the time of the call; the call creates nothing
Mktemp(j) ==
    /\ t_pc[j] = "start"
    /\ \E n \in PairNames :
          /\ t_files[n] = 0
          /\ t_path' = [t_path EXCEPT ![j] = n]
    /\ t_pc' = [t_pc EXCEPT ![j] = "named"]
    /\ UNCHANGED << non_pair_vars, t_files >>

\* conversion j's output is written to temp_path: by ffmpeg -y (lines
\* 110-127) or by audio.export (line 173), replacing what is there
WriteTemp(j) ==
    /\ t_pc[j] = "named"
    /\ t_files' = [t_files EXCEPT ![t_path[j]] = j]
    /\ t_pc' = [t_pc EXCEPT ![j] = "written"]
    /\ UNCHANGED << non_pair_vars, t_path >>

\* the job of conversion j ends: cleanup_temp_file unlinks the path if a
\* file is there
CleanupTemp(j) ==
    /\ t_pc[j] = "written"
    /\ t_files' = [t_files EXCEPT ![t_path[j]] = 0]
    /\ t_pc' = [t_pc EXCEPT ![j] = "done"]
    /\ UNCHANGED << non_pair_vars, t_path >>

PairNext ==
    \/ \E j \in Conversions : Mktemp(j)
    \/ \E j \in Conversions : WriteTemp(j)
    \/ \E j \in Conversions : CleanupTemp(j)

PairSpecInit == MainIdle /\ CleanIdle /\ DurIdle /\ InstIdle /\ PairInit

PairSpec == PairSpecInit /\ [][PairNext]_vars

\* ----------------------------- FFmpegManager.download_and_install, thread
\* the keys of FFmpegManager.DOWNLOAD_URLS
DOWNLOAD_URLS == {"darwin", "win32"}

\* values of sys.platform
Platforms == {"darwin", "win32", "linux"}

\* The statements inside the try of download_and_install, numbered in
\* order: 1 makedirs, 2 NamedTemporaryFile, 3 _download_file, 4
\* _extract_ffmpeg, 5 unlink, and on darwin 6-9: the same four for ffprobe.
InstallSteps(platform) == IF platform = "darwin" THEN 1..9 ELSE 1..5

\* environments: the platform, the statement that raises (0: none), and
\* whether the archives hold a member named as the binary
InstallEnvs ==
    [platform : Platforms, fail_at : 0..9, has_ffmpeg : BOOLEAN,
     has_ffprobe : BOOLEAN]

\* FFmpegManager.download_and_install: whether an exception leaves it, the
\* value returned, and the binaries _extract_ffmpeg has written
download_and_install(env) ==
    IF env.platform \notin DOWNLOAD_URLS
       THEN [raised |-> TRUE, value |-> FALSE, bin |-> {}]
       ELSE LET failed == env.fail_at \in InstallSteps(env.platform)
                reached(k) == ~failed \/ env.fail_at > k
            IN  [raised |-> FALSE,
                 value |-> ~failed,
                 bin |->
                    (IF env.has_ffmpeg /\ reached(4)
                        THEN {"ffmpeg"} ELSE {}) \cup
                    (IF /\ env.platform = "darwin"
                        /\ env.has_ffprobe
                        /\ reached(8)
                        THEN {"ffprobe"} ELSE {})]

\* FFmpegInstallDialog.__init__ / setup_ui, then exec()
InstInit ==
    /\ g_pc = "open"
    /\ g_buttons = TRUE
    /\ i_pc = "none"
    /\ i_env \in InstallEnvs
    /\ i_ret = FALSE
    /\ i_bin = {}
    /\ i_signals = <<>>

\* the user clicks Auto Install: start_download, lines 131-143; the
\* network and the archives may differ from one attempt to the next
StartDownload ==
    /\ g_pc = "open"
    /\ g_buttons
    /\ g_buttons' = FALSE
    /\ \E e \in InstallEnvs :
          /\ e.platform = i_env.platform
          /\ i_env' = e
    /\ i_pc' = "ready"
    /\ i_ret' = FALSE
    /\ i_signals' = <<>>
    /\ UNCHANGED << non_inst_vars, g_pc, i_bin >>

\* FFmpegDownloadThread.run, lines 25-27: success = download_and_install(...)
ThreadInstall ==
    /\ i_pc = "ready"
    /\ LET r == download_and_install(i_env) IN
       /\ i_bin' = i_bin \cup r.bin
       /\ IF r.raised
             THEN /\ i_pc' = "raised"
                  /\ UNCHANGED i_ret
             ELSE /\ i_pc' = "returned"
                  /\ i_ret' = r.value
    /\ UNCHANGED << non_inst_vars, g_pc, g_buttons, i_env, i_signals >>

\* FFmpegDownloadThread.run, line 28: self.finished.emit(success)
ThreadEmitFinished ==
    /\ i_pc = "returned"
    /\ i_signals' = Append(i_signals, i_ret)
    /\ i_pc' = "finished"
    /\ UNCHANGED << non_inst_vars, g_pc, g_buttons, i_env, i_ret, i_bin >>

\* FFmpegInstallDialog.on_finished(success), lines 151-161, run by the
\* event loop for the queued signal
OnFinished ==
    /\ i_pc = "finished"
    /\ IF i_signals[Len(i_signals)]
          THEN /\ g_pc' = "accepted"
               /\ UNCHANGED g_buttons
          ELSE /\ g_buttons' = TRUE
               /\ UNCHANGED g_pc
    /\ i_pc' = "handled"
    /\ UNCHANGED << non_inst_vars, i_env, i_ret, i_bin, i_signals >>

\* the user clicks Manual Install: open_download_page, lines 163-167
OpenDownloadPage ==
    /\ g_pc = "open"
    /\ g_buttons
    /\ g_pc' = "rejected"
    /\ UNCHANGED << non_inst_vars, g_buttons, i_pc, i_env, i_ret, i_bin,
                    i_signals >>

\* the user clicks Cancel, which is never disabled: reject, line 126
CancelDialog ==
    /\ g_pc = "open"
    /\ g_pc' = "rejected"
    /\ UNCHANGED << non_inst_vars, g_buttons, i_pc, i_env, i_ret, i_bin,
                    i_signals >>

InstNext ==
    \/ StartDownload
    \/ ThreadInstall
    \/ ThreadEmitFinished
    \/ OnFinished
    \/ OpenDownloadPage
    \/ CancelDialog

InstSpecInit == MainIdle /\ CleanIdle /\ DurIdle /\ PairIdle /\ InstInit

InstSpec == InstSpecInit /\ [][InstNext]_vars

\* a started thread runs on, and the event loop delivers a queued signal
InstFairSpec ==
    /\ InstSpec
    /\ WF_vars(ThreadInstall)
    /\ WF_vars(ThreadEmitFinished)
    /\ WF_vars(OnFinished)

\* ---------------------------------------------------------------- claims
EventIdx == 1..Len(events)
IsStatus(i, s) == events[i].type = "status_changed" /\ events[i].val = s
IsProgress(i) == events[i].type = "progress_changed"
IsFinished(i) == events[i].type = "finished"
IsError(i) == events[i].type = "error"
NumFinished == Cardinality({ i \in EventIdx : IsFinished(i) })
NumError == Cardinality({ i \in EventIdx : IsError(i) })

\* C1: within one transcode job the progress values delivered to the
\* callback's signal never decrease, whatever markers the transcoder prints.
C1_ProgressMonotone ==
    \A i, j \in EventIdx :
        (i < j /\ IsProgress(i) /\ IsProgress(j))
            => events[i].val <= events[j].val

\* C2: once stop() has cleared the running flag, the job emits no further
\* event of any kind.
C2_NoEventAfterStop == [][~is_running => events' = events]_vars

\* C3: a job that ended in Failed (and whose delete call, if any, did not
\* itself fail) has left no temp file behind.
C3_FailedJobRemovesTemp ==
    (pc = "done" /\ NumError > 0 /\ ~unlink_failed)
        => files[TempPath] = NoFile

\* C4: temp-file cleanup is executed exactly once per job in every terminal
\* state; stated for the jobs whose temp file is still on disk at the end, it
\* says that cleanup_temp_file was called exactly once for them.
C4_CleanupExactlyOnce ==
    (pc = "done" /\ files[TempPath] # NoFile) => cleanup_calls = 1

\* C5: a job cancelled via stop() while it was converting or analyzing, at a
\* moment when its temp file was already on disk, has deleted that file when
\* run() returns (the delete call itself not failing).
C5_CancelledJobDeletesTemp ==
    (/\ pc = "done"
     /\ stop_point.temp
     /\ stop_point.pc \notin {"except", "finally"}
     /\ ~unlink_failed)
        => files[TempPath] = NoFile

\* C6: no step of the job, under any interleaving of stop(), changes or
\* deletes the source input file; the only path a step removes is the result
\* path, and only when it differs from the input path.
C6_SourceNeverDeleted ==
    [][ /\ files'[file_path] = files[file_path]
        /\ \A p \in AllPaths :
              (files[p] # NoFile /\ files'[p] = NoFile)
                  => (p = wav_path /\ p # file_path) ]_vars

\* C6 witness: cleanup ran on a result path equal to the input path.
C6_Witness ==
    /\ pc = "done"
    /\ cleanup_calls = 1
    /\ wav_path = file_path
    /\ files[file_path] # NoFile

\* C7: a non-WAV input with no transcoder found ends with exactly one error
\* event ("FFmpeg not found"), no finished event, and at no time a temp file.
C7_NoTranscoder ==
    (NeedsConversion(file_path) /\ ~ffmpeg_found)
        => /\ files[TempPath] = NoFile
           /\ NumFinished = 0
           /\ \A i \in EventIdx : IsError(i) => events[i].val = "FFmpeg not found"
           /\ NumError = (IF pc \in {"finally", "done"} THEN 1 ELSE 0)

\* C7 witness: such a job has run to its end.
C7_Witness ==
    /\ pc = "done"
    /\ NeedsConversion(file_path)
    /\ ~ffmpeg_found
    /\ NumError = 1

\* C8: a job that is not cancelled ends with exactly one terminal event,
\* finished with a complete result or error with a message, and once an
\* exception was raised no result is delivered.
C8_OneTerminalEvent ==
    /\ (pc = "done" /\ is_running) => NumFinished + NumError = 1
    /\ \A i \in EventIdx : IsFinished(i) => events[i].val.kind = "result"
    /\ \A i \in EventIdx : IsError(i) => events[i].val # ""
    /\ exc # "" => NumFinished = 0
    /\ NumFinished + NumError <= 1

\* C8 witness: an uncancelled job whose analysis preconditions failed after
\* the Analyzing status.
C8_Witness ==
    /\ pc = "done"
    /\ is_running
    /\ NumError = 1
    /\ \E i \in EventIdx : IsStatus(i, "Analyzing")

\* C9: the events follow Converting (only for a transcode) -> progress ->
\* Analyzing -> finished, and an input taken as WAV gets neither a Converting
\* status nor a progress event.
C9_EventOrder ==
    /\ \A j \in EventIdx :
          IsProgress(j) => \E i \in 1..(j - 1) : IsStatus(i, "Converting")
    /\ \A i, j \in EventIdx :
          (IsProgress(i) /\ IsStatus(j, "Analyzing")) => i < j
    /\ \A i, j \in EventIdx :
          (IsStatus(i, "Converting") /\ IsStatus(j, "Analyzing")) => i < j
    /\ \A j \in EventIdx :
          IsFinished(j) => \E i \in 1..(j - 1) : IsStatus(i, "Analyzing")
    /\ \A i, j \in EventIdx :
          ((IsFinished(i) \/ IsError(i)) /\ i < j) => FALSE
    /\ ~NeedsConversion(file_path)
          => \A i \in EventIdx : ~IsStatus(i, "Converting") /\ ~IsProgress(i)

\* C9 witness: a transcoding job that emitted all four kinds in order.
C9_Witness ==
    /\ pc = "done"
    /\ \E i \in EventIdx : IsStatus(i, "Converting")
    /\ \E i \in EventIdx : IsProgress(i)
    /\ \E i \in EventIdx : IsStatus(i, "Analyzing")
    /\ NumFinished = 1

\* C10: a failing delete in cleanup is swallowed: the cleanup step emits no
\* event (so no error, and a finished job stays finished) and no exception
\* leaves run().
C10_CleanupFailureSwallowed ==
    [][pc = "finally" => (events' = events /\ ~escaped')]_vars

\* C10 witness: the delete failed in a job that had emitted finished.
C10_Witness ==
    /\ pc = "done"
    /\ unlink_failed
    /\ files[TempPath] # NoFile
    /\ NumFinished = 1
    /\ NumError = 0

\* C11: every finished event carries as file_name the base name of the
\* job's input path, also when analyze ran on the temp file.
C11_ResultFileName ==
    \A i \in EventIdx :
        IsFinished(i) => events[i].val.file_name = Basename(file_path)

\* C11 witness: finished was emitted by a job that analyzed the temp file,
\* whose own base name differs from the input's.
C11_Witness ==
    /\ NumFinished = 1
    /\ wav_path = TempPath
    /\ Basename(wav_path) # Basename(file_path)

\* the segment list analyze() is building, or has returned
CurrentSegments ==
    IF a_pc = "done" THEN a_result.speech_segments ELSE speech_segments

\* C12: once the main window has read sensitivity s and frame duration d and
\* started a job, a worker exists whose analyzer is configured with exactly
\* s and d (which the result then records).
C12_JobUsesSelection ==
    w_config # NoConfig =>
        /\ worker # NoWorker
        /\ w_exc = ""
        /\ worker.analyzer =
              [sensitivity |-> w_config.sensitivity,
               frame_duration |-> w_config.frame_duration]

\* C13: the segments are ordered by strictly increasing start, do not
\* overlap (each end <= the next start), and each has end > start >= 0, for
\* every sequence of frame answers.
C13_SegmentsOrdered ==
    LET segs == CurrentSegments IN
    /\ \A k \in 1..Len(segs) : segs[k][1] >= 0 /\ segs[k][2] > segs[k][1]
    /\ \A k \in 1..(Len(segs) - 1) :
          /\ segs[k][1] < segs[k + 1][1]
          /\ segs[k][2] <= segs[k + 1][1]

\* C13 witness: a result with two segments.
C13_Witness ==
    /\ a_pc = "done"
    /\ Len(a_result.speech_segments) = 2

\* C14: in every result speech_duration + silence_duration is less than one
\* frame duration away from total_duration, silence_duration >= 0, and
\* silence_duration is total_duration - speech_duration cut off at 0.
C14_DurationsBalance ==
    a_pc = "done" =>
        LET sum == a_result.speech_duration + a_result.silence_duration
            diff == sum - a_result.total_duration
            rest == a_result.total_duration - a_result.speech_duration
        IN
        /\ diff < FrameDurationSec(a_result.frame_duration)
        /\ 0 - diff < FrameDurationSec(a_result.frame_duration)
        /\ a_result.silence_duration >= 0
        /\ a_result.silence_duration = (IF rest > 0 THEN rest ELSE 0)

\* C14 witness: the padded last frame makes speech_duration exceed
\* total_duration.
C14_Witness ==
    /\ a_pc = "done"
    /\ a_result.speech_duration > a_result.total_duration

\* the sum of two percentages equals 100
PctSumIsHundred(p, q) ==
    /\ p[2] # 0
    /\ q[2] # 0
    /\ IF p[2] = q[2]
          THEN p[1] + q[1] = 100 * p[2]
          ELSE p[1] * q[2] + q[1] * p[2] = 100 * p[2] * q[2]

\* C15: for every result, speech_percentage + silence_percentage is 100 when
\* total_duration > 0; when total_duration <= 0 they are 0 and 100; no
\* quotient has a zero divisor.
C15_PercentagesSum ==
    a_pc = "done" =>
        LET sp == speech_percentage(a_result)
            sl == silence_percentage(a_result)
        IN
        /\ sp[2] # 0
        /\ sl[2] # 0
        /\ a_result.total_duration > 0 => PctSumIsHundred(sp, sl)
        /\ a_result.total_duration <= 0 => (sp = <<0, 1>> /\ sl = <<100, 1>>)

\* C15 witness: a result with speech in a stream of positive length, whose
\* silence was clamped.
C15_Witness ==
    /\ a_pc = "done"
    /\ a_result.total_duration > 0
    /\ a_result.speech_duration > a_result.total_duration

\* C16: analyze on a canonical stream of zero sample frames classifies no
\* frame and returns total, speech and silence durations 0 and no segment,
\* and its percentages are computed without a zero divisor.
C16_EmptyStream ==
    (a_pc \in {"loop", "done"} /\ a_file.n_frames = 0) =>
        /\ a_frames = <<>>
        /\ a_exc = ""
        /\ a_pc = "done" =>
              /\ a_result.total_duration = 0
              /\ a_result.speech_duration = 0
              /\ a_result.silence_duration = 0
              /\ a_result.speech_segments = <<>>
              /\ speech_percentage(a_result)[2] # 0
              /\ silence_percentage(a_result)[2] # 0

\* C16 witness: analyze has returned for a zero-frame stream.
C16_Witness ==
    /\ a_pc = "done"
    /\ a_file.n_frames = 0

\* C17: whatever integers are given, the analyzer holds and reports
\* sensitivity clamped into 0..3 (9 -> 3, -1 -> 0) and a frame duration that
\* is the given one if in {10, 20, 30} and 30 otherwise; nothing is rejected.
C17_ParametersClamped ==
    a_pc \in {"ready", "loop", "done", "raised"} =>
        LET s == a_args.sensitivity
            d == a_args.frame_duration
        IN
        /\ sensitivity = (IF s < 0 THEN 0 ELSE IF s > 3 THEN 3 ELSE s)
        /\ s = 9 => sensitivity = 3
        /\ s = -1 => sensitivity = 0
        /\ d \in {10, 20, 30} => frame_duration = d
        /\ d \notin {10, 20, 30} => frame_duration = 30
        /\ a_pc = "ready" => a_exc = ""
        /\ a_pc = "done" =>
              /\ a_result.sensitivity = sensitivity
              /\ a_result.frame_duration = frame_duration

\* C17 witness: an analyzer built with 9 and 25 has analyzed a stream.
C17_Witness ==
    /\ a_pc = "done"
    /\ a_args.sensitivity = 9
    /\ a_args.frame_duration = 25
    /\ a_result.sensitivity = 3
    /\ a_result.frame_duration = 30

\* the format analyze() accepts
IsCanonicalFile(f) ==
    /\ f.kind = "wav"
    /\ f.channels = 1
    /\ f.sample_width = 2
    /\ f.frame_rate \in {8000, 16000, 32000, 48000}

\* C18: analyze returns a result only for an existing file with 1 channel,
\* 2-byte samples and a supported rate; otherwise it raises before any frame
\* is classified and there is no result.
C18_PreconditionsFirst ==
    /\ a_pc = "done" => IsCanonicalFile(a_file)
    /\ a_result # NoResult => IsCanonicalFile(a_file)
    /\ (a_pc \in {"loop", "done", "raised"} /\ ~IsCanonicalFile(a_file)) =>
          /\ a_pc = "raised"
          /\ a_exc # ""
          /\ a_frames = <<>>
          /\ a_result = NoResult

\* C18 witness: analyze raised on an 8-bit mono file of a supported rate.
C18_Witness ==
    /\ a_pc = "raised"
    /\ a_file.kind = "wav"
    /\ a_file.channels = 1
    /\ a_file.sample_width = 1
    /\ a_file.frame_rate = 16000

\* temp files on disk in the normalization filesystem
NormTempFiles ==
    { k \in 1..Len(TempNames) : n_files[TempNames[k]] # NoFile }

\* C19: normalizing a WAV with 1 channel, 2-byte width and a supported rate
\* returns the input path and creates no temp file; normalizing the output
\* of a normalization returns that same path and creates no further temp
\* file.
C19_NormalizeIdempotent ==
    /\ (Len(n_out) >= 1 /\ IsCanonicalFile(n_files[NormInput])) =>
          /\ n_out[1] = NormInput
          /\ NormTempFiles = {}
    /\ \A k \in 2..Len(n_out) :
          /\ n_out[k] = n_out[1]
          /\ Cardinality(NormTempFiles) <= 1
          /\ n_files[n_out[k]] = n_files[n_out[1]]

\* C19 witness: a non-canonical WAV was normalized into a temp file and that
\* file normalized again.
C19_Witness ==
    /\ Len(n_out) = 2
    /\ n_out[1] = TempPath
    /\ ~IsCanonicalFile(n_files[NormInput])

\* C20: for every WAV header the returned stream has 1 channel, 2-byte width
\* and a supported rate, the input's rate if that was supported and 16000
\* otherwise, so analyze raises no channel, width or rate error on it.
C20_NormalizeCanonical ==
    Len(n_out) >= 1 =>
        LET i == n_files[NormInput]
            o == n_files[n_out[1]]
        IN
        /\ o.kind = "wav"
        /\ o.channels = 1
        /\ o.sample_width = 2
        /\ o.frame_rate \in {8000, 16000, 32000, 48000}
        /\ i.frame_rate \in {8000, 16000, 32000, 48000}
              => o.frame_rate = i.frame_rate
        /\ i.frame_rate \notin {8000, 16000, 32000, 48000}
              => o.frame_rate = 16000
        /\ AnalyzeError(o) \notin
              { "Only mono audio is supported",
                "Only 16-bit audio is supported",
                "Unsupported sample rate" }

\* C20 witness: a 5-channel 8-bit 48000 Hz WAV was normalized into a temp
\* file that kept the rate.
C20_Witness ==
    /\ Len(n_out) >= 1
    /\ n_files[NormInput].channels = 5
    /\ n_files[NormInput].sample_width = 1
    /\ n_files[NormInput].frame_rate = 48000
    /\ n_out[1] = TempPath
    /\ n_files[TempPath].frame_rate = 48000

\* the test of cleanup_temp_file on the call under observation
CleanupDue == c_args[1] # c_args[2] /\ c_before[c_args[1]] # NoFile

\* C21 as stated: cleanup(result_path, original_path) deletes result_path
\* if and only if it differs from original_path and exists; otherwise the
\* filesystem is left unchanged.
C21_DeletesIff ==
    c_pc \in {"returned", "raised"} =>
        IF CleanupDue
           THEN c_files = [c_before EXCEPT ![c_args[1]] = NoFile]
           ELSE c_files = c_before

\* C21 amended: cleanup returns without raising; it removes result_path,
\* and nothing else, when result_path differs from original_path, exists
\* and os.unlink succeeds; in every other case the filesystem is left
\* unchanged.
C21_DeletesWhenUnlinkSucceeds ==
    /\ c_pc # "raised"
    /\ c_pc = "returned" =>
          IF CleanupDue /\ c_unlink_ok
             THEN c_files = [c_before EXCEPT ![c_args[1]] = NoFile]
             ELSE c_files = c_before

\* C21 witness: a call that removed an existing temp file while the
\* original stayed on disk.
C21_Witness ==
    /\ c_pc = "returned"
    /\ CleanupDue
    /\ c_files[c_args[1]] = NoFile
    /\ c_files[c_args[2]] # NoFile
\* C22: every progress value a transcode emits lies in [0, 100]; a
\* percentage is computed only with a positive divisor; and when the
\* duration was discovered as 0 the job emits no progress value at all.
C22_ProgressInRange ==
    /\ \A i \in EventIdx :
          IsProgress(i) => events[i].val >= 0 /\ events[i].val <= 100
    /\ pc = "on_progress" =>
          total_duration > 0 /\ pending >= 0 /\ pending <= 100
    /\ total_duration = 0 => \A i \in EventIdx : ~IsProgress(i)

\* C22 witness: a marker beyond the discovered duration was reported, cut
\* off at 100.
C22_Witness ==
    /\ total_duration > 0
    /\ \E i \in EventIdx : IsProgress(i) /\ events[i].val = 100
\* C23: a transcode hands a path to its caller only when the child exited
\* with status 0; when it exits with a non-zero status load_as_wav raises
\* "FFmpeg conversion failed" and wav_path stays None.
C23_PathOnlyOnStatusZero ==
    /\ (NeedsConversion(file_path) /\ wav_path # None) =>
          /\ process = ExitedProcess(0)
          /\ wav_path = TempPath
    /\ (process.kind = "exited" /\ process.returncode # 0) =>
          /\ wav_path = None
          /\ exc = "FFmpeg conversion failed"
          /\ result = NoResult
          /\ pc \in {"except", "finally", "done"}

\* C23 witness: the child exited with status 1 and the job has ended.
C23_Witness ==
    /\ process = ExitedProcess(1)
    /\ lines > 0
    /\ pc = "done"
\* C24: discover_duration never raises; when the prober is absent, exits
\* with an error or cannot be run, or prints something that is not a number,
\* it returns 0.
C24_DurationNeverRaises ==
    /\ d_pc # "raised"
    /\ (/\ d_pc = "returned"
        /\ \/ ~d_probe.found
           \/ d_probe.run # "ok"
           \/ ~ParseFloat(d_probe.output).ok) => d_ret = 0

\* C24 witness: a prober that ran and printed "N/A"; the call returned 0.
C24_Witness ==
    /\ d_pc = "returned"
    /\ d_probe.found
    /\ d_probe.run = "ok"
    /\ d_probe.output = "N/A"
    /\ d_ret = 0
\* C25: two conversions that run at the same time never hold the same temp
\* path, so the file at a conversion's temp path is its own output until
\* its own cleanup.
C25_TempPathsDistinct ==
    /\ \A i, j \in Conversions :
          (/\ i # j
           /\ t_pc[i] \in {"named", "written"}
           /\ t_pc[j] \in {"named", "written"}) => t_path[i] # t_path[j]
    /\ \A j \in Conversions :
          t_pc[j] = "written" => t_files[t_path[j]] = j
\* analyze_file has gone past its checks and begun to start a job
JobStartBegun == w_config # NoConfig \/ worker # NoWorker

C27_BooleanOutcome ==
    /\ i_pc # "raised"
    /\ i_pc \in {"returned", "finished"} =>
          (i_ret <=> i_env.fail_at \notin InstallSteps(i_env.platform))
\* the frames classified so far, numbered from 1: frame k is i = k - 1
FrameIdx == 1..Len(a_frames)
IsSpeechFrame(k) == k \in FrameIdx /\ a_frames[k].answer = "speech"
IsFaultFrame(k) == k \in FrameIdx /\ a_frames[k].answer = "fault"

\* the maximal runs <<a, b>> of consecutive speech frames
SpeechRuns ==
    { r \in FrameIdx \X FrameIdx :
        /\ r[1] <= r[2]
        /\ \A k \in r[1]..r[2] : IsSpeechFrame(k)
        /\ ~IsSpeechFrame(r[1] - 1)
        /\ ~IsSpeechFrame(r[2] + 1) }

\* the interval of the frames a..b, in ticks
FrameInterval(a, b) ==
    << (a - 1) * FrameDurationSec(frame_duration),
       b * FrameDurationSec(frame_duration) >>

\* segment sg covers frame k
Covers(sg, k) ==
    /\ sg[1] <= FrameInterval(k, k)[1]
    /\ FrameInterval(k, k)[2] <= sg[2]

\* C28: the segments returned are exactly the maximal runs of consecutive
\* speech frames: the run of frames a..b (counted from 0) gives the segment
\* (a * d, (b + 1) * d), each run gives one segment, and there is no other.
C28_SegmentsAreMaximalRuns ==
    a_pc = "done" =>
        LET segs == a_result.speech_segments IN
        /\ { segs[m] : m \in 1..Len(segs) } =
              { FrameInterval(r[1], r[2]) : r \in SpeechRuns }
        /\ Len(segs) = Cardinality(SpeechRuns)

\* C28 witness: a result with a run of two speech frames followed by a
\* non-speech frame.
C28_Witness ==
    /\ a_pc = "done"
    /\ \E r \in SpeechRuns : r[2] = r[1] + 1 /\ r[2] < Len(a_frames)

\* C29: when the last frame is speech, the last segment of the result ends
\* at num_frames * frame duration; and in every result each speech frame
\* lies inside a segment (none is left open).
C29_LastSegmentClosed ==
    a_pc = "done" =>
        LET segs == a_result.speech_segments
            fs == FrameSize(a_file.frame_rate, frame_duration)
            num_frames == NumFrames(a_file.n_frames, fs)
        IN
        /\ IsSpeechFrame(Len(a_frames)) =>
              /\ Len(segs) > 0
              /\ segs[Len(segs)][2] =
                    num_frames * FrameDurationSec(frame_duration)
        /\ \A k \in FrameIdx :
              IsSpeechFrame(k) => \E m \in 1..Len(segs) : Covers(segs[m], k)

\* C29 witness: a result whose last frame is speech, after an earlier
\* segment was closed inside the loop.
C29_Witness ==
    /\ a_pc = "done"
    /\ IsSpeechFrame(Len(a_frames))
    /\ Len(a_result.speech_segments) = 2

\* C30: a frame on which the classifier raised is treated as non-speech:
\* analyze does not raise because of it and classifies every frame; the
\* frame is not counted in speech_duration; no segment covers it; and a
\* segment open at that frame ends at the frame's start boundary.
C30_FaultIsNonSpeech ==
    /\ a_pc = "raised" => a_frames = <<>>
    /\ a_pc = "done" =>
          LET segs == a_result.speech_segments
              fs == FrameSize(a_file.frame_rate, frame_duration)
          IN
          /\ a_exc = ""
          /\ Len(a_frames) = NumFrames(a_file.n_frames, fs)
          /\ a_result.speech_duration =
                Cardinality({ k \in FrameIdx : IsSpeechFrame(k) }) *
                FrameDurationSec(frame_duration)
          /\ \A k \in FrameIdx :
                IsFaultFrame(k) =>
                   /\ \A m \in 1..Len(segs) : ~Covers(segs[m], k)
                   /\ IsSpeechFrame(k - 1) =>
                         \E m \in 1..Len(segs) :
                            segs[m][2] = FrameInterval(k, k)[1]

\* C30 witness: the classifier raised on a frame between a speech frame
\* and a later frame, and analyze returned.
C30_Witness ==
    /\ a_pc = "done"
    /\ \E k \in FrameIdx :
          IsFaultFrame(k) /\ IsSpeechFrame(k - 1) /\ k < Len(a_frames)
\* C31: analyze classifies exactly ceil(n_frames / frame_size) frames, in
\* stream order, with frame_size = sample_rate * frame_duration / 1000;
\* every frame handed to the classifier holds frame_size samples, a short
\* last frame being padded; no read goes past the end of the stream.
C31_FrameCountAndPadding ==
    a_pc \in {"loop", "done"} =>
        LET fs == FrameSize(a_file.frame_rate, frame_duration)
            n == a_file.n_frames
        IN
        /\ fs * 1000 = a_file.frame_rate * frame_duration
        /\ a_pos <= n
        /\ \A k \in FrameIdx :
              /\ a_frames[k].size = fs
              /\ a_frames[k].read > 0
              /\ a_frames[k].read =
                    (IF k * fs <= n THEN fs ELSE n - (k - 1) * fs)
        /\ a_pc = "done" =>
              /\ a_pos = n
              /\ Len(a_frames) * fs >= n
              /\ Len(a_frames) > 0 => (Len(a_frames) - 1) * fs < n

\* C31 witness: a result over two or more frames whose last frame was
\* read short and padded.
C31_Witness ==
    /\ a_pc = "done"
    /\ Len(a_frames) >= 2
    /\ a_frames[Len(a_frames)].read < a_frames[Len(a_frames)].size
\* C32: when no frame is classified speech, analyze returns no segment,
\* speech_duration 0 and silence_duration equal to total_duration, for
\* every supported sample rate and frame duration.
C32_NoSpeechAllSilence ==
    (a_pc = "done" /\ \A k \in FrameIdx : ~IsSpeechFrame(k)) =>
        /\ a_result.speech_segments = <<>>
        /\ a_result.speech_duration = 0
        /\ a_result.silence_duration = a_result.total_duration

\* C32 witness: a result over two or more frames none of which is speech,
\* one of them a frame on which the classifier raised.
C32_Witness ==
    /\ a_pc = "done"
    /\ Len(a_frames) >= 2
    /\ \A k \in FrameIdx : ~IsSpeechFrame(k)
    /\ \E k \in FrameIdx : IsFaultFrame(k)
    /\ a_result.total_duration > 0

\* the summed length of a list of segments, in ticks
RECURSIVE SegmentsLength(_)
SegmentsLength(segs) ==
    IF segs = <<>>
       THEN 0
       ELSE (Head(segs)[2] - Head(segs)[1]) + SegmentsLength(Tail(segs))

\* C33: in every result the frames covered by the segments, the sum of
\* (end - start) / frame duration, are as many as the speech-classified
\* frames that speech_duration counts, also when the classifier raised on
\* some frames.
C33_SegmentFramesMatchSpeech ==
    a_pc = "done" =>
        LET segs == a_result.speech_segments
            d == FrameDurationSec(frame_duration)
            speech == Cardinality({ k \in FrameIdx : IsSpeechFrame(k) })
        IN
        /\ \A m \in 1..Len(segs) : (segs[m][2] - segs[m][1]) % d = 0
        /\ SegmentsLength(segs) = speech * d
        /\ a_result.speech_duration = speech * d

\* C33 witness: a result with a speech frame, a frame on which the
\* classifier raised, and a speech frame again.
C33_Witness ==
    /\ a_pc = "done"
    /\ \E k \in FrameIdx :
          IsFaultFrame(k) /\ IsSpeechFrame(k - 1) /\ IsSpeechFrame(k + 1)
\* a percentage <<numerator, denominator>> lies in [0, 100]
PctInRange(p) == p[2] > 0 /\ p[1] >= 0 /\ p[1] <= 100 * p[2]

\* C34: for every result of analyze, speech_percentage and
\* silence_percentage lie in [0, 100], also when the padded last frame is
\* classified speech.
C34_PercentagesInRange ==
    a_pc = "done" =>
        /\ PctInRange(speech_percentage(a_result))
        /\ PctInRange(silence_percentage(a_result))
\* C35: every segment of a result has bounds that are whole multiples of
\* the frame duration, with 0 <= start < end <= num_frames * frame
\* duration; hence no segment ends a full frame or more after
\* total_duration.
C35_SegmentBounds ==
    a_pc = "done" =>
        LET segs == a_result.speech_segments
            d == FrameDurationSec(frame_duration)
            fs == FrameSize(a_file.frame_rate, frame_duration)
            num_frames == NumFrames(a_file.n_frames, fs)
        IN
        \A m \in 1..Len(segs) :
           /\ segs[m][1] % d = 0
           /\ segs[m][2] % d = 0
           /\ 0 <= segs[m][1]
           /\ segs[m][1] < segs[m][2]
           /\ segs[m][2] <= num_frames * d
           /\ segs[m][2] - a_result.total_duration < d

\* C35 witness: a result whose last segment ends after total_duration,
\* the padded last frame being speech.
C35_Witness ==
    /\ a_pc = "done"
    /\ Len(a_result.speech_segments) > 0
    /\ a_result.speech_segments[Len(a_result.speech_segments)][2] >
          a_result.total_duration
\* C36: the result delivered by the finished signal identifies the job's
\* input: its file_path is the job's input path, not a temp path, and its
\* file_name is the input's base name.
C36_ResultPathIsInput ==
    \A i \in EventIdx :
       IsFinished(i) =>
          /\ events[i].val.file_path = file_path
          /\ events[i].val.file_name = Basename(file_path)
\* C37: whenever analyze_file has disabled the drop zone to start a job,
\* the drop zone is eventually enabled again; the window never stays
\* locked.
C37_DropZoneReenabled == (~drop_enabled) ~> drop_enabled
\* C38: after start_download has disabled the buttons and started the
\* thread, the thread eventually emits finished(success), whatever the
\* outcome, and the dialog then accepts or enables its Auto Install and
\* Manual Install buttons again.
C38_DownloadEnds ==
    (i_pc = "ready") ~>
        (/\ Len(i_signals) > 0
         /\ g_pc = "accepted" \/ g_buttons)
====
